---- MODULE Spec2Model ----
(***************************************************************************)
(* Solar dashboard: the aggregation helpers of app/utils.py (top_regions,  *)
(* the four summary scalars of the metric cards) and the load - select -   *)
(* render cycle of app/main.py.                                            *)
(*                                                                         *)
(* Column names are sequences of characters, so that Python's substring    *)
(* test ('Region' in col) is computed and not assumed.  A cell is a        *)
(* sequence of length at most one: <<>> is a missing cell (pandas' NaN),   *)
(* <<v>> holds v.  Means are exact fractions in lowest terms; with the     *)
(* small integers of Vals a float64 mean orders and compares the same way. *)
(***************************************************************************)
EXTENDS Integers, Sequences, FiniteSets, TLC

VARIABLES pc, csv_file, df, kpi_column, x_column, column, n, top_df, cards, box_x, page

vars == <<pc, csv_file, df, kpi_column, x_column, column, n, top_df, cards, box_x, page>>

(***************************************************************************)
(* Bounds                                                                  *)
(***************************************************************************)
MaxRows == 3

MaxN == 3

MaxDashRows == 1

Vals == {-1, 0, 1}

Labels == {"A", "B"}

\* the labels in the order pandas sorts them (lexicographic)
LabelOrder == <<"A", "B">>

(***************************************************************************)
(* Column names                                                            *)
(***************************************************************************)
Region == <<"R", "e", "g", "i", "o", "n">>

Index == <<"I", "n", "d", "e", "x">>

index == <<"i", "n", "d", "e", "x">>

level_0 == <<"l", "e", "v", "e", "l", "_", "0">>

GHI == <<"G", "H", "I">>

DNI == <<"D", "N", "I">>

Country == <<"C", "o", "u", "n", "t", "r", "y">>

RegionGHI == Region \o GHI

GHI_index == GHI \o <<"_">> \o index

\* Python's  sub in s  on strings
Contains(sub, s) ==
  \E i \in 1..(Len(s) - Len(sub) + 1) : SubSeq(s, i, i + Len(sub) - 1) = sub

(***************************************************************************)
(* Cells, fractions                                                        *)
(***************************************************************************)
NA == <<>>

NaN == [num |-> 0, den |-> 0]

IsNaN(q) == q.den = 0

RECURSIVE GCD(_, _)
GCD(a, b) == IF b = 0 THEN a ELSE GCD(b, a % b)

Abs(a) == IF a < 0 THEN 0 - a ELSE a

\* the fraction a/b (b > 0) in lowest terms
Q(a, b) == LET g == GCD(Abs(a), b) IN [num |-> a \div g, den |-> b \div g]

\* a >= b on defined fractions
Geq(a, b) == a.num * b.den >= b.num * a.den

CellQ(c) == IF c = NA THEN NaN ELSE Q(c[1], 1)

RECURSIVE SumSeq(_)
SumSeq(s) == IF s = <<>> THEN 0 ELSE Head(s) + SumSeq(Tail(s))

\* the values of the cells that are not missing, in order
RECURSIVE DropNA(_)
DropNA(cells) ==
  IF cells = <<>> THEN <<>>
  ELSE IF Head(cells) = NA THEN DropNA(Tail(cells))
  ELSE <<Head(cells)[1]>> \o DropNA(Tail(cells))

(***************************************************************************)
(* DataFrame: columns (name, dtype) and rows of cells                      *)
(***************************************************************************)
ColumnNames(d) == {d.columns[i].name : i \in DOMAIN d.columns}

ColPos(d, name) == CHOOSE i \in DOMAIN d.columns : d.columns[i].name = name

\* df[name]
Series(d, name) == [i \in DOMAIN d.rows |-> d.rows[i][ColPos(d, name)]]

\* df.select_dtypes(include=dtype).columns.tolist()
select_dtypes(d, dtype) ==
  SelectSeq([i \in DOMAIN d.columns |-> d.columns[i]], LAMBDA c : c.dtype = dtype)

Perms(k) == {p \in [1..k -> 1..k] : \A i, j \in 1..k : p[i] = p[j] => i = j}

\* Series.mean(): the mean of the values present, NaN when there is none
Mean(cells) ==
  LET v == DropNA(cells)
  IN IF v = <<>> THEN NaN ELSE Q(SumSeq(v), Len(v))

\* the values of v in ascending order
SortAsc(v) ==
  LET p == CHOOSE q \in Perms(Len(v)) :
             \A i, j \in DOMAIN v : i < j => v[q[i]] <= v[q[j]]
  IN [i \in DOMAIN v |-> v[p[i]]]

\* Median without the halving of the two middle values
MedianNoHalving(cells) ==
  LET v == SortAsc(DropNA(cells))
      k == Len(v)
  IN IF k = 0 THEN NaN
     ELSE IF k % 2 = 1 THEN Q(v[(k + 1) \div 2], 1)
     ELSE Q(v[k \div 2] + v[k \div 2 + 1], 1)

\* Series.median(): the middle value present, the mean of the two middle ones
\* for an even count, NaN when there is none
Median(cells) ==
  LET v == SortAsc(DropNA(cells))
      k == Len(v)
  IN IF k = 0 THEN NaN
     ELSE IF k % 2 = 1 THEN Q(v[(k + 1) \div 2], 1)
     ELSE Q(v[k \div 2] + v[k \div 2 + 1], 2)

\* Series.max()
Max(cells) ==
  LET v == DropNA(cells)
  IN IF v = <<>> THEN NaN
     ELSE Q(CHOOSE x \in {v[i] : i \in DOMAIN v} : \A i \in DOMAIN v : v[i] <= x, 1)

\* Series.min()
Min(cells) ==
  LET v == DropNA(cells)
  IN IF v = <<>> THEN NaN
     ELSE Q(CHOOSE x \in {v[i] : i \in DOMAIN v} : \A i \in DOMAIN v : x <= v[i], 1)

\* f"{x:.2f}": the value in hundredths, rounded to nearest (an exact tie to the
\* even hundredth); <<>> stands for the text "nan"
Fmt2(q) ==
  IF IsNaN(q) THEN NA
  ELSE LET a == 100 * q.num
           f == a \div q.den
           r == a % q.den
       IN IF 2 * r < q.den THEN <<f>>
          ELSE IF 2 * r > q.den THEN <<f + 1>>
          ELSE IF f % 2 = 0 THEN <<f>> ELSE <<f + 1>>

(***************************************************************************)
(* utils.py                                                                *)
(***************************************************************************)
Frame(cols, rows) == [error |-> "", columns |-> cols, rows |-> rows]

KeyError == [error |-> "KeyError", columns |-> <<>>, rows |-> <<>>]

\* the group labels of df.groupby('Region'): the distinct labels present
\* (rows with a missing label belong to no group), sorted
GroupKeys(d) ==
  SelectSeq(LabelOrder, LAMBDA l : \E i \in DOMAIN d.rows : Series(d, Region)[i] = <<l>>)

\* GroupCells without the partition: the cells of every row
GroupCellsAllRows(d, col, l) == Series(d, col)

\* the cells of column in the rows of group l, in row order
GroupCells(d, col, l) ==
  LET rowsOf == SelectSeq([i \in DOMAIN d.rows |-> i],
                          LAMBDA i : Series(d, Region)[i] = <<l>>)
  IN [k \in DOMAIN rowsOf |-> Series(d, col)[rowsOf[k]]]

\* df.groupby('Region')[column].mean(): (label, mean) per group, in label order
groupby_mean(d, col) ==
  LET keys == GroupKeys(d)
  IN [k \in DOMAIN keys |-> <<keys[k], Mean(GroupCells(d, col, keys[k]))>>]

\* p orders the values v descending, the NaN ones last in their original order
IsDescOrder(p, v) ==
  \A i, j \in DOMAIN v : i < j =>
     /\ IsNaN(v[p[i]]) => IsNaN(v[p[j]])
     /\ (~IsNaN(v[p[i]]) /\ ~IsNaN(v[p[j]])) => Geq(v[p[i]], v[p[j]])
     /\ (IsNaN(v[p[i]]) /\ IsNaN(v[p[j]])) => p[i] < p[j]

\* sort_values(ascending=False) with the default kind='quicksort', which is not
\* a stable sort (pandas: only 'mergesort' and 'stable' are): every descending
\* order is a possible outcome, equal values in any order, at any length
sort_values(v) == {p \in Perms(Len(v)) : IsDescOrder(p, v)}

\* head taking one row too many
headOffByOne(s, k) == SubSeq(s, 1, IF k + 1 < Len(s) THEN k + 1 ELSE Len(s))

\* head(n) for a count n >= 0
head(s, k) == SubSeq(s, 1, IF k < Len(s) THEN k ELSE Len(s))

\* the list comprehension of line 99
rename_columns(cols, col) ==
  [i \in DOMAIN cols |->
     IF Contains(Region, cols[i]) THEN Region
     ELSE IF Contains(index, cols[i]) THEN Index
     ELSE col]

\* the grouped branch, lines 88-94
top_grouped(d, col, k) ==
  LET s == groupby_mean(d, col)
      v == [i \in DOMAIN s |-> s[i][2]]
  IN {Frame(<<Region, col>>, head([i \in DOMAIN s |-> s[p[i]]], k)) :
        p \in sort_values(v)}

\* the fallback branch, line 96: reset_index() names the old index 'index',
\* or 'level_0' when the frame already has a column 'index'
top_rows(d, col, k) ==
  LET c == Series(d, col)
      v == [i \in DOMAIN c |-> CellQ(c[i])]
  IN {Frame(<<IF col = index THEN level_0 ELSE index, col>>,
            head([i \in DOMAIN c |-> <<p[i] - 1, v[p[i]]>>], k)) :
        p \in sort_values(v)}

\* top_regions that never takes the grouped branch
top_regionsNeverGrouped(d, col, k) ==
  IF col \notin ColumnNames(d) THEN {KeyError}
  ELSE {[t EXCEPT !.columns = rename_columns(t.columns, col)] : t \in top_rows(d, col, k)}

\* top_regions answering a missing column with an empty frame
top_regionsEmptyOnMissing(d, col, k) ==
  IF col \notin ColumnNames(d) THEN {Frame(<<>>, <<>>)}
  ELSE LET raw == IF Region \in ColumnNames(d)
                  THEN top_grouped(d, col, k)
                  ELSE top_rows(d, col, k)
       IN {[t EXCEPT !.columns = rename_columns(t.columns, col)] : t \in raw}

\* the frames top_regions(df, column, n) can return
top_regions(d, col, k) ==
  IF col \notin ColumnNames(d) THEN {KeyError}
  ELSE LET raw == IF Region \in ColumnNames(d)
                  THEN top_grouped(d, col, k)
                  ELSE top_rows(d, col, k)
       IN {[t EXCEPT !.columns = rename_columns(t.columns, col)] : t \in raw}

(***************************************************************************)
(* main.py                                                                 *)
(***************************************************************************)
None == <<>>

\* the option "None" of the group-by select box
NoneOption == <<"N", "o", "n", "e">>

\* the options of the CSV select box, line 94
Files == {"data/benin_raw.csv", "data/togo_dapaong_raw.csv", "data/sierraleone_bumbna_raw.csv"}

Unset == [error |-> "unset", columns |-> <<>>, rows |-> <<>>]

\* the default of top_regions' parameter n, which the dashboard relies on
DefaultN == 10

\* the four cards of display_metrics, in the order of the code: Average,
\* Median, Max, Min, each formatted to two decimals
metric_cards(d, kpi) ==
  LET c == Series(d, kpi)
  IN [Average |-> Fmt2(Mean(c)), Median |-> Fmt2(Median(c)),
      Max |-> Fmt2(Max(c)), Min |-> Fmt2(Min(c))]

\* plot_boxplot's x axis: the requested column, None when the frame lacks it
plot_boxplot(d, y, x) == IF x # None /\ x \notin ColumnNames(d) THEN None ELSE x

\* the names of the columns of a dtype, as a list
ColumnList(d, dtype) ==
  LET c == select_dtypes(d, dtype) IN [i \in DOMAIN c |-> c[i].name]

SeqToSet(s) == {s[i] : i \in DOMAIN s}

(***************************************************************************)
(* The tables the checks range over                                        *)
(***************************************************************************)
Num(name) == [name |-> name, dtype |-> "number"]

Text(name) == [name |-> name, dtype |-> "object"]

CellsOf(dtype) ==
  IF dtype = "number" THEN {NA} \cup {<<v>> : v \in Vals}
  ELSE {NA} \cup {<<l>> : l \in Labels}

RECURSIVE RowsOf(_)
RowsOf(schema) ==
  IF schema = <<>> THEN {<<>>}
  ELSE {<<c>> \o r : c \in CellsOf(Head(schema).dtype), r \in RowsOf(Tail(schema))}

\* the frame of a schema with the rows r
FrameOf(schema, r) == [columns |-> schema, rows |-> r]

\* inputs of the aggregation helpers: a frame, a ranking column that is one of
\* its numeric columns or a name it does not have, and a count n.  (The
\* docstring of top_regions: "based on a numeric column", "n: Number of top
\* regions to return"; a column 'Region', when there is one, is a text
\* column.)  The schemas of FnSchemas range over every content of up to
\* MaxRows rows, those of FnNameSchemas, which vary the names, over every
\* content of up to one row.
FnSchemas == {<<Text(Region), Num(GHI)>>, <<Num(GHI)>>}

FnNameSchemas ==
  {<<Text(Region), Num(RegionGHI)>>, <<Text(Region), Num(GHI_index)>>,
   <<Num(RegionGHI)>>, <<Num(GHI_index)>>, <<Num(index)>>, <<Text(Country), Num(GHI)>>}

FnRows(schema) == IF schema \in FnSchemas THEN MaxRows ELSE 1

FnColumns(d) == SeqToSet(ColumnList(d, "number")) \cup {DNI}

\* the contents a CSV file of the dashboard can have: one of these schemas and
\* 1 to MaxDashRows rows
DashSchemas ==
  {<<Text(Region), Num(GHI)>>, <<Text(Country), Num(GHI)>>,
   <<Text(Region), Text(Country), Num(GHI)>>, <<Num(GHI), Num(DNI)>>,
   <<Text(Region)>>, <<Num(GHI)>>}

NoFrame == [columns |-> <<>>, rows |-> <<>>]

(***************************************************************************)
(* The helpers applied to every input                                      *)
(***************************************************************************)
InitFn ==
  /\ pc = "call"
  /\ \E schema \in FnSchemas \cup FnNameSchemas :
       \E m \in 0..FnRows(schema) :
          \E r \in [1..m -> RowsOf(schema)] : df = FrameOf(schema, r)
  /\ column \in FnColumns(df)
  /\ kpi_column = column
  /\ n \in 0..MaxN
  /\ csv_file = "" /\ x_column = None /\ box_x = None
  /\ top_df = Unset /\ cards = <<>> /\ page = <<>>

CallTopRegions ==
  /\ pc = "call"
  /\ top_df' \in top_regions(df, column, n)
  /\ pc' = "ranked"
  /\ UNCHANGED <<csv_file, df, kpi_column, x_column, column, n, cards, box_x, page>>

\* the metric cards need the column: df[kpi_column] of a missing column raises
CallMetrics ==
  /\ pc = "ranked"
  /\ cards' = IF kpi_column \in ColumnNames(df)
              THEN <<metric_cards(df, kpi_column)>> ELSE <<>>
  /\ pc' = "returned"
  /\ UNCHANGED <<csv_file, df, kpi_column, x_column, column, n, top_df, box_x, page>>

NextFn == CallTopRegions \/ CallMetrics

SpecFn == InitFn /\ [][NextFn]_vars

(***************************************************************************)
(* One run of the script per interaction: main()                           *)
(***************************************************************************)
Init ==
  /\ pc = "csv_select"
  /\ csv_file = "" /\ df = NoFrame
  /\ kpi_column = None /\ x_column = None /\ column = None /\ n = DefaultN
  /\ top_df = Unset /\ cards = <<>> /\ box_x = None /\ page = <<>>

\* setup_sidebar, lines 92-96: the file chosen in the select box
setup_sidebar_csv ==
  /\ pc = "csv_select"
  /\ csv_file' \in Files
  /\ pc' = "load"
  /\ UNCHANGED <<df, kpi_column, x_column, column, n, top_df, cards, box_x, page>>

\* setup_sidebar, lines 99-100: the file is there and is read
setup_sidebar_load ==
  /\ pc = "load"
  /\ \E schema \in DashSchemas :
       \E m \in 1..MaxDashRows :
          \E r \in [1..m -> RowsOf(schema)] : df' = FrameOf(schema, r)
  /\ pc' = "numeric"
  /\ UNCHANGED <<csv_file, kpi_column, x_column, column, n, top_df, cards, box_x, page>>

\* setup_sidebar, lines 101-103: FileNotFoundError, st.error and st.stop
setup_sidebar_not_found ==
  /\ pc = "load"
  /\ page' = Append(page, "error")
  /\ pc' = "stopped"
  /\ UNCHANGED <<csv_file, df, kpi_column, x_column, column, n, top_df, cards, box_x>>

\* the numeric-column check with st.error but without st.stop
setup_sidebar_numeric_no_stop ==
  /\ pc = "numeric"
  /\ page' = IF ColumnList(df, "number") = <<>> THEN Append(page, "error") ELSE page
  /\ pc' = "kpi_select"
  /\ UNCHANGED <<csv_file, df, kpi_column, x_column, column, n, top_df, cards, box_x>>

\* setup_sidebar, lines 106-109: st.error and st.stop without a numeric column
setup_sidebar_numeric ==
  /\ pc = "numeric"
  /\ IF ColumnList(df, "number") = <<>>
     THEN page' = Append(page, "error") /\ pc' = "stopped"
     ELSE page' = page /\ pc' = "kpi_select"
  /\ UNCHANGED <<csv_file, df, kpi_column, x_column, column, n, top_df, cards, box_x>>

\* setup_sidebar, line 111: the KPI chosen among the numeric columns (a select
\* box without options returns None)
setup_sidebar_kpi ==
  /\ pc = "kpi_select"
  /\ LET numeric_cols == ColumnList(df, "number")
     IN IF numeric_cols = <<>>
        THEN kpi_column' = None
        ELSE kpi_column' \in SeqToSet(numeric_cols)
  /\ pc' = "x_select"
  /\ UNCHANGED <<csv_file, df, x_column, column, n, top_df, cards, box_x, page>>

\* setup_sidebar, lines 114-119: the grouping chosen among "None" and the text
\* columns; no select box without a text column
setup_sidebar_x ==
  /\ pc = "x_select"
  /\ LET categorical_cols == ColumnList(df, "object")
     IN IF categorical_cols = <<>>
        THEN x_column' = None
        ELSE \E x \in SeqToSet(<<NoneOption>> \o categorical_cols) :
               x_column' = IF x = NoneOption THEN None ELSE x
  /\ pc' = "header"
  /\ UNCHANGED <<csv_file, df, kpi_column, column, n, top_df, cards, box_x, page>>

display_header ==
  /\ pc = "header"
  /\ page' = Append(page, "header")
  /\ pc' = "metrics"
  /\ UNCHANGED <<csv_file, df, kpi_column, x_column, column, n, top_df, cards, box_x>>

\* display_metrics computing the cards without rendering them
display_metrics_unrendered ==
  /\ pc = "metrics"
  /\ cards' = <<metric_cards(df, kpi_column)>>
  /\ pc' = "boxplot"
  /\ UNCHANGED <<csv_file, df, kpi_column, x_column, column, n, top_df, box_x, page>>

\* display_metrics, lines 140-178; df[kpi_column] of a missing column raises
\* and ends the run
display_metrics ==
  /\ pc = "metrics"
  /\ IF kpi_column \in ColumnNames(df)
     THEN /\ cards' = <<metric_cards(df, kpi_column)>>
          /\ page' = Append(page, "metrics")
          /\ pc' = "boxplot"
     ELSE /\ cards' = cards /\ page' = page /\ pc' = "failed"
  /\ UNCHANGED <<csv_file, df, kpi_column, x_column, column, n, top_df, box_x>>

\* display_main_content, lines 186-190; px.box of a missing y column raises
\* and ends the run
display_main_content_boxplot ==
  /\ pc = "boxplot"
  /\ IF kpi_column \in ColumnNames(df)
     THEN /\ box_x' = plot_boxplot(df, kpi_column, x_column)
          /\ page' = Append(page, "boxplot")
          /\ pc' = "top_regions"
     ELSE /\ box_x' = box_x /\ page' = page /\ pc' = "failed"
  /\ UNCHANGED <<csv_file, df, kpi_column, x_column, column, n, top_df, cards>>

\* display_main_content, lines 193-197: top_regions(df, column=kpi_column); an
\* exception of top_regions ends the run
display_main_content_top ==
  /\ pc = "top_regions"
  /\ column' = kpi_column
  /\ n' = DefaultN
  /\ top_df' \in top_regions(df, kpi_column, DefaultN)
  /\ IF top_df'.error = ""
     THEN page' = Append(page, "top_regions") /\ pc' = "describe"
     ELSE page' = page /\ pc' = "failed"
  /\ UNCHANGED <<csv_file, df, kpi_column, x_column, cards, box_x>>

\* display_main_content, lines 200-203
display_main_content_describe ==
  /\ pc = "describe"
  /\ page' = Append(page, "describe")
  /\ pc' = "done"
  /\ UNCHANGED <<csv_file, df, kpi_column, x_column, column, n, top_df, cards, box_x>>

\* the next interaction runs the script again, from nothing
rerun ==
  /\ pc \in {"done", "stopped", "failed"}
  /\ pc' = "csv_select"
  /\ csv_file' = "" /\ df' = NoFrame
  /\ kpi_column' = None /\ x_column' = None /\ column' = None /\ n' = DefaultN
  /\ top_df' = Unset /\ cards' = <<>> /\ box_x' = None /\ page' = <<>>

\* the steps of one run of main(), in program order
main ==
  \/ setup_sidebar_csv
  \/ setup_sidebar_load
  \/ setup_sidebar_not_found
  \/ setup_sidebar_numeric
  \/ setup_sidebar_kpi
  \/ setup_sidebar_x
  \/ display_header
  \/ display_metrics
  \/ display_main_content_boxplot
  \/ display_main_content_top
  \/ display_main_content_describe

Next == main \/ rerun

Spec == Init /\ [][Next]_vars

(***************************************************************************)
(* Properties of top_regions and of the metric cards (under SpecFn)        *)
(***************************************************************************)
Called == pc # "call"

Present == column \in ColumnNames(df)

Grouped == Region \in ColumnNames(df)

\* the cell of row i in the named column
Cell(i, name) == df.rows[i][ColPos(df, name)]

\* the distinct group labels of the table
GroupsOf == {Cell(i, Region)[1] : i \in {j \in DOMAIN df.rows : Cell(j, Region) # NA}}

\* the number of groups (grouped mode) or of rows (fallback mode)
Available == IF Grouped THEN Cardinality(GroupsOf) ELSE Len(df.rows)

RECURSIVE SumCells(_, _)
SumCells(S, name) ==
  IF S = {} THEN 0
  ELSE LET i == CHOOSE j \in S : TRUE
       IN Cell(i, name)[1] + SumCells(S \ {i}, name)

\* the rows of group l that hold a value in the ranking column
Members(l) ==
  {i \in DOMAIN df.rows : Cell(i, Region) = <<l>> /\ Cell(i, column) # NA}

\* q is the arithmetic mean of the ranking column over the rows of group l
\* (NaN when no row of the group holds a value)
IsGroupMean(q, l) ==
  IF Members(l) = {} THEN IsNaN(q)
  ELSE ~IsNaN(q) /\ q.num * Cardinality(Members(l)) = q.den * SumCells(Members(l), column)

\* a is listed before b in a descending order: NaN counts as below every value
Before(a, b) == IsNaN(b) \/ (~IsNaN(a) /\ Geq(a, b))

\* C1: top_regions returns at most n rows and at most as many rows as there
\* are groups (grouped mode) or rows (fallback mode); with no more than n of
\* them it returns them all, without an error.
C1_RowCount ==
  (Called /\ Present) =>
     /\ top_df.error = ""
     /\ Len(top_df.rows) <= n
     /\ Len(top_df.rows) <= Available
     /\ Available <= n => Len(top_df.rows) = Available

C1_Witness ==
  /\ pc = "ranked" /\ Present /\ Grouped
  /\ n = 1 /\ Available = 2 /\ Len(top_df.rows) = 1

\* C2: in grouped mode the values are in non-increasing order (a group without
\* any value has the mean NaN and comes last), the labels are distinct groups
\* of the table, and each value is the mean of the ranking column over exactly
\* the rows of its group.
C2_GroupedMeans ==
  (Called /\ Present /\ Grouped) =>
     LET r == top_df.rows
     IN /\ \A i, j \in DOMAIN r : i < j => Before(r[i][2], r[j][2])
        /\ \A i, j \in DOMAIN r : i # j => r[i][1] # r[j][1]
        /\ \A i \in DOMAIN r : r[i][1] \in GroupsOf /\ IsGroupMean(r[i][2], r[i][1])

C2_Witness ==
  /\ pc = "ranked" /\ Present /\ Grouped
  /\ Len(df.rows) = 3 /\ Len(top_df.rows) = 2
  /\ top_df.rows[1][2].den = 2
  /\ ~IsNaN(top_df.rows[2][2])

\* the rows of the table in descending order of the ranking column, equal
\* values in their original order, missing values last
StableOrder ==
  CHOOSE p \in Perms(Len(df.rows)) :
    \A i, j \in DOMAIN df.rows : i < j =>
       LET a == CellQ(Cell(p[i], column))
           b == CellQ(Cell(p[j], column))
       IN /\ Before(a, b)
          /\ (a = b => p[i] < p[j])

\* C3: in fallback mode the result is the first n rows of the table sorted
\* descending by the ranking column with a stable sort, each with its original
\* positional index and its raw value.
C3_StableFallback ==
  (Called /\ Present /\ ~Grouped) =>
     top_df.rows =
       SubSeq([i \in DOMAIN df.rows |->
                 <<StableOrder[i] - 1, CellQ(Cell(StableOrder[i], column))>>],
              1, IF n < Len(df.rows) THEN n ELSE Len(df.rows))

\* C5: the result has two columns, the key column named 'Region' (grouped) or
\* 'Index' (fallback) and the value column named as the ranking column.
C5_ColumnNames ==
  (Called /\ Present) =>
     top_df.columns = <<IF Grouped THEN Region ELSE Index, column>>

HasValue == \E i \in DOMAIN df.rows : Cell(i, kpi_column) # NA

FirstRow(l) == CHOOSE i \in DOMAIN df.rows :
                 /\ Cell(i, Region) = <<l>>
                 /\ \A j \in DOMAIN df.rows : Cell(j, Region) = <<l>> => i <= j

\* C9: in grouped mode groups with equal means are listed in the order in
\* which their first rows appear in the table.
C9_FirstEncountered ==
  (Called /\ Present /\ Grouped) =>
     \A i, j \in DOMAIN top_df.rows :
        (i < j /\ top_df.rows[i][2] = top_df.rows[j][2]) =>
           FirstRow(top_df.rows[i][1]) < FirstRow(top_df.rows[j][1])

(***************************************************************************)
(* Properties of the dashboard cycle (under Spec)                          *)
(***************************************************************************)
\* the ranked table has been rendered in this cycle
Ranked == pc \in {"describe", "done"}

\* the frame is a grouped ranking: its key column is the label column
IsGroupedFrame(t) == t.columns[1] = Region

Keys(t) == {t.rows[i][1] : i \in DOMAIN t.rows}

\* the distinct values present in a text column of the table
ValuesOf(name) ==
  {Cell(i, name)[1] : i \in {j \in DOMAIN df.rows : Cell(j, name) # NA}}

\* C4 as stated: the ranked table is grouped by the grouping column the user
\* selected, and is the row-sorted fallback when none was selected.
C4_GroupedBySelection ==
  Ranked =>
     IF x_column # None /\ x_column \in ColumnNames(df)
     THEN IsGroupedFrame(top_df) /\ Keys(top_df) = ValuesOf(x_column)
     ELSE ~IsGroupedFrame(top_df)

\* C4 as amended: the ranked table is grouped by the column named 'Region'
\* whenever the table has one, whatever grouping the user selected, and is
\* the row-sorted fallback whenever the table has none.
C4_GroupedByRegion ==
  Ranked =>
     IF Region \in ColumnNames(df)
     THEN IsGroupedFrame(top_df) /\ Keys(top_df) = ValuesOf(Region)
     ELSE ~IsGroupedFrame(top_df) /\ Keys(top_df) = 0..(Len(df.rows) - 1)

C4_Witness ==
  /\ pc = "done"
  /\ x_column = Country /\ Region \in ColumnNames(df)
  /\ ValuesOf(Country) = {"A"} /\ ValuesOf(Region) = {"B"}
  /\ Keys(top_df) = {"B"}

Rendered == {page[i] : i \in DOMAIN page}

\* C7: a cycle whose file is missing, or whose file has no numeric column,
\* shows an error and halts: nothing else is rendered, no KPI and no grouping
\* is selected, and the cycle does nothing more.
C7_HaltOnError ==
  /\ [](pc = "load" => page = <<>>)
  /\ [](pc \in {"kpi_select", "x_select", "header", "metrics", "boxplot",
                "top_regions", "describe", "done"}
          => ColumnList(df, "number") # <<>> /\ "error" \notin Rendered)
  /\ [](pc = "stopped" =>
          /\ page = <<"error">>
          /\ df = NoFrame \/ ColumnList(df, "number") = <<>>
          /\ kpi_column = None /\ x_column = None
          /\ cards = <<>> /\ box_x = None /\ top_df = Unset)
  /\ [][(pc = "load" /\ pc' # "numeric") => pc' = "stopped"]_vars
  /\ [][pc = "stopped" => (pc' = "csv_select" /\ page' = <<>>)]_vars

C7_Witness ==
  /\ pc = "stopped"
  /\ df # NoFrame /\ Len(df.rows) = 1
  /\ page = <<"error">>

PageOrder == <<"header", "metrics", "boxplot", "top_regions", "describe">>

\* the stages of a cycle after the file and numeric-column checks
Stages ==
  <<"kpi_select", "x_select", "header", "metrics", "boxplot", "top_regions",
    "describe", "done">>

Stage(p) == CHOOSE i \in DOMAIN Stages : Stages[i] = p

Running == pc \in SeqToSet(SubSeq(Stages, 1, Len(Stages) - 1))

CanStep == Running => ENABLED main

====
